---- MODULE Spec2Model ----
(***************************************************************************)
(* Tableau Simplex solver (simplex.py): the engine SimplexSolver and the   *)
(* command-line driver, with exact rational arithmetic.                    *)
(*                                                                         *)
(* Python indices are kept 0-based in every operator result (so that the   *)
(* departing-row index -1 means what it means in the code); a sequence is  *)
(* read at index + 1.                                                      *)
(***************************************************************************)
EXTENDS Integers, Sequences, FiniteSets, TLC

VARIABLES
    isMain,      \* the module runs as the command-line program
    argv,        \* sys.argv[1:]
    pc,          \* where the process is
    status,      \* exit status of the process, -1 while it has not ended
    inA, inB, inC,  \* A, b, c of __main__ / the arguments of run_simplex
    A, b, c, tableau, entering, departing,   \* the fields of the solver
    pivotIndex,  \* the position find_pivot selected last, <<>> before
    result,      \* <<the mapping run_simplex returned>>, <<>> before
    solutions,   \* results of the get_current_solution calls since the
                 \* last pivot
    visited,     \* the bases the run has left
    repeated     \* the run has come back to a basis it had left

vars == <<isMain, argv, pc, status, inA, inB, inC, A, b, c, tableau, entering,
          departing, pivotIndex, result, solutions, visited, repeated>>

(***************************************************************************)
(* Bounds of the model.                                                    *)
(***************************************************************************)
\* constraint rows of the generated problems
NumRows == 2
\* right-hand sides of the generated problems range over 0..MaxB
MaxB == 1
\* objective coefficients of the generated problems range over -MaxObj..MaxObj
MaxObj == 1
\* longest command line
MaxArgs == 3
\* get_current_solution calls recorded between two pivots
MaxInspect == 2

(***************************************************************************)
(* fractions.Fraction: a rational is <<numerator, denominator>> in lowest  *)
(* terms with a positive denominator.                                      *)
(***************************************************************************)
Abs(x) == IF x < 0 THEN -x ELSE x

RECURSIVE Gcd(_, _)
Gcd(x, y) == IF y = 0 THEN x ELSE Gcd(y, x % y)

Fraction(n, d) ==
    LET g == Gcd(Abs(n), Abs(d))
        s == IF d < 0 THEN -1 ELSE 1
    IN  <<s * (n \div g), s * (d \div g)>>

Zero == <<0, 1>>
One == <<1, 1>>

FNeg(x) == <<-x[1], x[2]>>
FAdd(x, y) == Fraction(x[1] * y[2] + y[1] * x[2], x[2] * y[2])
FSub(x, y) == Fraction(x[1] * y[2] - y[1] * x[2], x[2] * y[2])
\* common factors are cancelled before multiplying; the value is unchanged
FMul(x, y) ==
    LET g1 == Gcd(Abs(x[1]), y[2])
        g2 == Gcd(Abs(y[1]), x[2])
    IN  Fraction((x[1] \div g1) * (y[1] \div g2), (x[2] \div g2) * (y[2] \div g1))
FDiv(x, y) == FMul(x, Fraction(y[2], y[1]))
FLt(x, y) == x[1] * y[2] < y[1] * x[2]
FGt(x, y) == FLt(y, x)
FLe(x, y) == ~FLt(y, x)

\* Fraction(x) for an input number x, given as a ratio
ToFraction(x) == Fraction(x[1], x[2])

(***************************************************************************)
(* Engine: pure parts of SimplexSolver.                                    *)
(***************************************************************************)
\* _generate_identity(n)
GenerateIdentity(n) ==
    [i \in 1..n |-> [j \in 1..n |-> IF i = j THEN One ELSE Zero]]

\* add_slack_variables on the tableau t (a copy of A) with right-hand sides bb
AddSlackVariables(t, bb) ==
    LET slack_vars == GenerateIdentity(Len(t))
    IN  [i \in 1..Len(slack_vars) |-> (t[i] \o slack_vars[i]) \o <<bb[i]>>]

\* create_tableau with the objective coefficients not negated
CreateTableauNotNegated(AA, bb, cc) ==
    Append(AddSlackVariables(AA, bb), cc \o [k \in 1..(Len(bb) + 1) |-> Zero])

\* create_tableau from the converted A, b, c
CreateTableau(AA, bb, cc) ==
    LET neg == [index \in 1..Len(cc) |-> FNeg(cc[index])]
    IN  Append(AddSlackVariables(AA, bb),
               neg \o [k \in 1..(Len(bb) + 1) |-> Zero])

\* the labels "x%s" % str(i) and "s%s" % str(i)
XLabel(i) == "x" \o ToString(i)
SLabel(i) == "s" \o ToString(i)

\* the entering labels set_simplex_input builds for a tableau t over n columns of A
EnteringLabels(t, n) ==
    [k \in 1..Len(t[1]) |->
        IF k - 1 < n THEN XLabel(k - 1)
        ELSE IF k - 1 < Len(t[1]) - 1 THEN SLabel(k - 1 - n)
        ELSE "b"]

\* the departing labels set_simplex_input builds
DepartingLabels(t, n) ==
    [k \in 1..(Len(t[1]) - 1 - n) |-> SLabel(k - 1)]

\* should_terminate
ShouldTerminate(t) ==
    LET bottom == t[Len(t)]
    IN  \A i \in 0..(Len(bottom) - 1) :
            ~(FLt(bottom[i + 1], Zero) /\ i # Len(bottom) - 1)

\* the scan of get_entering_var from position index on
RECURSIVE EnteringScan(_, _, _, _)
EnteringScan(bottom_row, index, most_neg, most_neg_ind) ==
    IF index > Len(bottom_row) - 1 THEN most_neg_ind
    ELSE IF FLt(bottom_row[index + 1], most_neg)
         THEN EnteringScan(bottom_row, index + 1, bottom_row[index + 1], index)
         ELSE EnteringScan(bottom_row, index + 1, most_neg, most_neg_ind)

\* get_entering_var
GetEnteringVar(t) ==
    LET bottom_row == t[Len(t)]
    IN  EnteringScan(bottom_row, 0, bottom_row[1], 0)

\* the ratio b_i / x[entering_index] of row x
Ratio(x, entering_index) == FDiv(x[Len(x)], x[entering_index + 1])

\* first loop of get_departing_var: the first row with a non-zero entry and
\* a positive ratio, -1 if there is none
RECURSIVE FirstCandidate(_, _, _)
FirstCandidate(t, entering_index, index) ==
    IF index > Len(t) - 1 THEN -1
    ELSE IF t[index + 1][entering_index + 1] # Zero
            /\ FGt(Ratio(t[index + 1], entering_index), Zero)
         THEN index
         ELSE FirstCandidate(t, entering_index, index + 1)

\* the second loop keeping the larger ratio
RECURSIVE MinRatioScanLarger(_, _, _, _, _, _)
MinRatioScanLarger(t, entering_index, skip, index, min_ratio, min_ratio_index) ==
    IF index > Len(t) - 1 THEN min_ratio_index
    ELSE IF index > skip /\ FGt(t[index + 1][entering_index + 1], Zero)
            /\ FLt(min_ratio, Ratio(t[index + 1], entering_index))
         THEN MinRatioScanLarger(t, entering_index, skip, index + 1,
                                 Ratio(t[index + 1], entering_index), index)
         ELSE MinRatioScanLarger(t, entering_index, skip, index + 1,
                                 min_ratio, min_ratio_index)

\* second loop of get_departing_var, from row index on
RECURSIVE MinRatioScan(_, _, _, _, _, _)
MinRatioScan(t, entering_index, skip, index, min_ratio, min_ratio_index) ==
    IF index > Len(t) - 1 THEN min_ratio_index
    ELSE IF index > skip /\ FGt(t[index + 1][entering_index + 1], Zero)
            /\ FGt(min_ratio, Ratio(t[index + 1], entering_index))
         THEN MinRatioScan(t, entering_index, skip, index + 1,
                           Ratio(t[index + 1], entering_index), index)
         ELSE MinRatioScan(t, entering_index, skip, index + 1,
                           min_ratio, min_ratio_index)

\* get_departing_var
GetDepartingVar(t, entering_index) ==
    LET first == FirstCandidate(t, entering_index, 0)
    IN  IF first = -1 THEN -1
        ELSE MinRatioScan(t, entering_index, first, 0,
                          Ratio(t[first + 1], entering_index), first)

\* find_pivot: <<enter_index, depart_index>>
FindPivot(t) ==
    LET enter_index == GetEnteringVar(t)
    IN  <<enter_index, GetDepartingVar(t, enter_index)>>

\* pivot that leaves the objective row as it is
PivotTableauConstraintsOnly(t, j, i) ==
    LET p == t[i + 1][j + 1]
        prow == [k \in 1..Len(t[i + 1]) |-> FDiv(t[i + 1][k], p)]
    IN  [index \in 1..Len(t) |->
            IF index = i + 1 THEN prow
            ELSE IF index = Len(t) THEN t[index]
            ELSE [k \in 1..Len(t[index]) |->
                     FSub(t[index][k], FMul(prow[k], t[index][j + 1]))]]

\* the row operations of pivot on position [j, i]
PivotTableau(t, j, i) ==
    LET p == t[i + 1][j + 1]
        prow == [k \in 1..Len(t[i + 1]) |-> FDiv(t[i + 1][k], p)]
    IN  [index \in 1..Len(t) |->
            IF index = i + 1 THEN prow
            ELSE [k \in 1..Len(t[index]) |->
                     FSub(t[index][k], FMul(prow[k], t[index][j + 1]))]]

\* departing.index(x), 0-based; x is known to occur
DepartingIndex(dep, x) == (CHOOSE k \in 1..Len(dep) :
                              dep[k] = x /\ \A l \in 1..(k - 1) : dep[l] # x) - 1

\* get_current_solution
GetCurrentSolution(t, ent, dep) ==
    LET keys == {ent[k] : k \in 1..Len(ent)} \ {"b"}
        row(x) == t[DepartingIndex(dep, x) + 1]
    IN  [x \in keys \cup {"opt"} |->
            IF x = "opt" THEN t[Len(t)][Len(t[1])]
            ELSE IF \E k \in 1..Len(dep) : dep[k] = x
                 THEN row(x)[Len(row(x))]
                 ELSE Zero]

(***************************************************************************)
(* Inputs.  A number is written as a ratio <<n, d>>; Num(k) is the integer *)
(* k.                                                                      *)
(***************************************************************************)
Num(k) == <<k, 1>>
NumVector(v) == [k \in 1..Len(v) |-> Num(v[k])]
NumMatrix(M) == [i \in 1..Len(M) |-> NumVector(M[i])]
Problem(M, v, w) == [A |-> NumMatrix(M), b |-> NumVector(v), c |-> NumVector(w)]

\* the five problems of SimplexSolverTest
Test1 == Problem(<<<<2, 1>>, <<1, 2>>>>, <<4, 3>>, <<1, 1>>)
Test2 == Problem(<<<<-1, 1>>, <<1, 1>>, <<2, 5>>>>, <<11, 27, 90>>, <<4, 6>>)
Test3 == Problem(<<<<2, 1, 0>>, <<1, 2, -2>>, <<0, 1, 2>>>>, <<10, 20, 5>>,
                 <<2, -1, 2>>)
Test4 == Problem(<<<<4, 1, 1>>, <<2, 3, 1>>, <<1, 2, 3>>>>, <<30, 60, 40>>,
                 <<3, 2, 1>>)
Test5 == [A |-> <<<<<<1, 1>>, <<2, 1>>, <<3, 2>>>>,
                  <<<<2, 3>>, <<2, 3>>, <<1, 1>>>>,
                  <<<<1, 2>>, <<1, 3>>, <<1, 2>>>>>>,
          b |-> NumVector(<<12000, 4600, 2400>>),
          c |-> NumVector(<<11, 16, 15>>)]
Tests == {Test1, Test2, Test3, Test4, Test5}

\* the solution mappings the tests expect
Expected1 == ("x0" :> <<5, 3>>) @@ ("x1" :> <<2, 3>>) @@ ("s0" :> Zero)
             @@ ("s1" :> Zero) @@ ("opt" :> <<7, 3>>)
Expected2 == ("x0" :> Num(15)) @@ ("x1" :> Num(12)) @@ ("s0" :> Num(14))
             @@ ("s1" :> Zero) @@ ("s2" :> Zero) @@ ("opt" :> Num(132))
Expected3 == ("x0" :> Num(5)) @@ ("x1" :> Zero) @@ ("x2" :> <<5, 2>>)
             @@ ("s0" :> Zero) @@ ("s1" :> Num(20)) @@ ("s2" :> Zero)
             @@ ("opt" :> Num(15))
Expected4 == ("x0" :> Num(3)) @@ ("x1" :> Num(18)) @@ ("x2" :> Zero)
             @@ ("s0" :> Zero) @@ ("s1" :> Zero) @@ ("s2" :> Num(1))
             @@ ("opt" :> Num(45))
Expected5 == ("x0" :> Num(600)) @@ ("x1" :> Num(5100)) @@ ("x2" :> Num(800))
             @@ ("s0" :> Zero) @@ ("s1" :> Zero) @@ ("s2" :> Zero)
             @@ ("opt" :> Num(100200))

\* a problem with b >= 0 on which the ratio test ends up selecting the
\* objective row
ObjectiveRowProblem ==
    Problem(<<<<2, 3, -3>>, <<1, -1, 0>>, <<1, -1, -1>>>>, <<0, 0, 1>>,
            <<2, -1, 1>>)

\* a problem with b >= 0 on which get_entering_var ends up selecting the
\* b column
BColumnProblem ==
    Problem(<<<<0, 1>>, <<1, 0>>, <<1, -1>>>>, <<1, 0, 2>>, <<1, 1>>)

\* generated problems: NumRows constraints over two variables, each
\* constraint one of x1 <= b, x0 <= b, x0 - x1 <= b
RowSet == {<<0, 1>>, <<1, 0>>, <<1, -1>>}
Generated ==
    {Problem(M, v, w) : M \in [1..NumRows -> RowSet],
                        v \in [1..NumRows -> 0..MaxB],
                        w \in [1..2 -> (-MaxObj)..MaxObj]}

Problems == Tests \cup {ObjectiveRowProblem, BColumnProblem} \cup Generated

(***************************************************************************)
(* Engine: the steps of run_simplex on a fresh SimplexSolver.              *)
(***************************************************************************)
Basis(dep) == {dep[k] : k \in 1..Len(dep)}

EngineUnchanged == UNCHANGED <<A, b, c, tableau, entering, departing>>

\* run_simplex is entered: set_simplex_input converts the inputs, creates
\* the tableau and the label tables
SetSimplexInput ==
    /\ pc = "call"
    /\ LET AA == A \o [i \in 1..Len(inA) |->
                         [k \in 1..Len(inA[i]) |-> ToFraction(inA[i][k])]]
           bb == [k \in 1..Len(inB) |-> ToFraction(inB[k])]
           cc == [k \in 1..Len(inC) |-> ToFraction(inC[k])]
           t == CreateTableau(AA, bb, cc)
       IN  /\ A' = AA
           /\ b' = bb
           /\ c' = cc
           /\ tableau' = t
           /\ entering' = entering \o EnteringLabels(t, Len(AA[1]))
           /\ departing' = departing \o DepartingLabels(t, Len(AA[1]))
    /\ pc' = "loop"
    /\ UNCHANGED <<isMain, argv, status, inA, inB, inC, pivotIndex, result, solutions,
                   visited, repeated>>

\* the loop condition fails: run_simplex returns get_current_solution()
Return ==
    /\ pc = "loop"
    /\ ShouldTerminate(tableau)
    /\ result' = <<GetCurrentSolution(tableau, entering, departing)>>
    /\ pc' = "returned"
    /\ EngineUnchanged
    /\ UNCHANGED <<isMain, argv, status, inA, inB, inC, pivotIndex, solutions,
                   visited, repeated>>

\* find_pivot gives no departing row: sys.exit(0)
Abort ==
    /\ pc = "loop"
    /\ ~ShouldTerminate(tableau)
    /\ FindPivot(tableau)[2] < 0
    /\ pivotIndex' = FindPivot(tableau)
    /\ pc' = "aborted"
    /\ status' = 0
    /\ EngineUnchanged
    /\ UNCHANGED <<isMain, argv, inA, inB, inC, result, solutions, visited, repeated>>

\* one iteration of the loop: pivot on the position find_pivot selected
Pivot ==
    /\ pc = "loop"
    /\ ~ShouldTerminate(tableau)
    /\ LET pivot == FindPivot(tableau)
           j == pivot[1]
           i == pivot[2]
       IN  /\ i >= 0
           /\ i < Len(departing)
           /\ pivotIndex' = pivot
           /\ tableau' = PivotTableau(tableau, j, i)
           /\ departing' = [departing EXCEPT ![i + 1] = entering[j + 1]]
    /\ visited' = visited \cup {Basis(departing)}
    /\ repeated' = (repeated \/ Basis(departing') \in visited')
    /\ solutions' = <<>>
    /\ UNCHANGED <<isMain, pc, argv, status, inA, inB, inC, A, b, c, entering, result>>

\* the selected row is not a row of departing: the row operations are done
\* and the assignment departing[i] = ... raises IndexError
PivotRaises ==
    /\ pc = "loop"
    /\ ~ShouldTerminate(tableau)
    /\ LET pivot == FindPivot(tableau)
       IN  /\ pivot[2] >= Len(departing)
           /\ pivotIndex' = pivot
           /\ tableau' = PivotTableau(tableau, pivot[1], pivot[2])
    /\ pc' = "raised"
    /\ status' = 1
    /\ UNCHANGED <<isMain, argv, inA, inB, inC, A, b, c, entering, departing, result,
                   solutions, visited, repeated>>

\* a call of get_current_solution that takes the first label out of
\* departing
InspectConsuming ==
    /\ pc \in {"loop", "returned"}
    /\ Len(solutions) < MaxInspect
    /\ solutions' = Append(solutions,
                           GetCurrentSolution(tableau, entering, departing))
    /\ departing' = IF departing = <<>> THEN <<>> ELSE Tail(departing)
    /\ UNCHANGED <<isMain, pc, argv, status, inA, inB, inC, A, b, c, tableau,
                   entering, pivotIndex, result, visited, repeated>>

\* a call of get_current_solution between two steps of the run, or after it
Inspect ==
    /\ pc \in {"loop", "returned"}
    /\ Len(solutions) < MaxInspect
    /\ solutions' = Append(solutions,
                           GetCurrentSolution(tableau, entering, departing))
    /\ EngineUnchanged
    /\ UNCHANGED <<isMain, pc, argv, status, inA, inB, inC, pivotIndex, result,
                   visited, repeated>>

\* a caller invokes run_simplex(A, b, c) on a fresh solver
InitCall ==
    /\ isMain = FALSE
    /\ pc = "call"
    /\ argv = <<>>
    /\ status = -1
    /\ \E p \in Problems : inA = p.A /\ inB = p.b /\ inC = p.c
    /\ A = <<>> /\ b = <<>> /\ c = <<>>
    /\ tableau = <<>> /\ entering = <<>> /\ departing = <<>>
    /\ pivotIndex = <<>>
    /\ result = <<>>
    /\ solutions = <<>>
    /\ visited = {}
    /\ repeated = FALSE

(***************************************************************************)
(* Command-line driver.  A word of the command line is [flag, text]: flag  *)
(* is the option it starts with, as a sequence of characters (<<>> for a   *)
(* word that is no option), text is the value attached to the option (-Av, *)
(* --A=v) or the word itself.                                              *)
(***************************************************************************)
LitA == "[[2,1],[1,2]]"
LitB == "[4,3]"
LitC == "[1,1]"
LitEmpty == "[]"
LitBad == "[["
\* the text of a word that starts with an option: no literal
OptionText == "-"

\* ast.literal_eval on the texts of the model
LiteralEval(text) ==
    IF text = LitA THEN [ok |-> TRUE, value |-> Test1.A]
    ELSE IF text = LitB THEN [ok |-> TRUE, value |-> Test1.b]
    ELSE IF text = LitC THEN [ok |-> TRUE, value |-> Test1.c]
    ELSE IF text = LitEmpty THEN [ok |-> TRUE, value |-> <<>>]
    ELSE [ok |-> FALSE, value |-> <<>>]

OptH == <<"-", "h">>
OptA == <<"-", "A">>
OptB == <<"-", "b">>
OptC == <<"-", "c">>
LongA == <<"-", "-", "A">>
LongB == <<"-", "-", "b">>
LongC == <<"-", "-", "c">>
OptZ == <<"-", "z">>

\* the options getopt is told about: "hA:b:c:" and ["A=", "b=", "c="]
NoValueOptions == {OptH}
ValueOptions == {OptA, OptB, OptC, LongA, LongB, LongC}

Word(flag, text) == [flag |-> flag, text |-> text]
Words == {Word(OptH, ""), Word(OptZ, ""), Word(OptA, ""), Word(<<>>, LitA),
          Word(OptA, LitA), Word(OptA, LitEmpty), Word(OptA, LitBad),
          Word(OptB, LitB), Word(OptC, LitC),
          Word(LongA, LitA), Word(LongB, LitB), Word(LongC, LitC)}
CommandLines == UNION {[1..n -> Words] : n \in 0..MaxArgs}

\* the text of a whole word, when an option takes it as its value
WholeText(w) == IF w.flag = <<>> THEN w.text ELSE OptionText

\* getopt.getopt(argv, "hA:b:c:", ["A=", "b=", "c="]): the options up to the
\* first word that is no option; ok is FALSE for GetoptError
RECURSIVE Getopt(_, _)
Getopt(args, opts) ==
    IF args = <<>> THEN [ok |-> TRUE, opts |-> opts]
    ELSE LET w == Head(args)
         IN  IF w.flag = <<>> THEN [ok |-> TRUE, opts |-> opts]
             ELSE IF w.flag \in NoValueOptions
                  THEN Getopt(Tail(args), Append(opts, <<w.flag, "">>))
             ELSE IF w.flag \notin ValueOptions
                  THEN [ok |-> FALSE, opts |-> opts]
             ELSE IF w.text # ""
                  THEN Getopt(Tail(args), Append(opts, <<w.flag, w.text>>))
             ELSE IF Len(args) < 2
                  THEN [ok |-> FALSE, opts |-> opts]
             ELSE Getopt(Tail(Tail(args)),
                         Append(opts, <<w.flag, WholeText(args[2])>>))

\* opt in ("-A"): ("-A") is the string "-A", so this is a substring test
IsSubstring(s, t) ==
    \E k \in 0..(Len(t) - Len(s)) : SubSeq(t, k + 1, k + Len(s)) = s

\* the loop over opts; st holds A, b, c and how the loop ended: "end" (all
\* options handled), "help" (sys.exit() after the usage text), "error" (an
\* exception of literal_eval, which nothing catches)
RECURSIVE HandleOpts(_, _)
HandleOpts(opts, st) ==
    IF opts = <<>> THEN st
    ELSE LET opt == Head(opts)[1]
             arg == Head(opts)[2]
         IN  IF opt = OptH THEN [st EXCEPT !.out = "help"]
             ELSE IF IsSubstring(opt, OptA)
                  THEN IF LiteralEval(arg).ok
                       THEN HandleOpts(Tail(opts),
                                [st EXCEPT !.A = LiteralEval(arg).value])
                       ELSE [st EXCEPT !.out = "error"]
             ELSE IF IsSubstring(opt, OptB)
                  THEN IF LiteralEval(arg).ok
                       THEN HandleOpts(Tail(opts),
                                [st EXCEPT !.b = LiteralEval(arg).value])
                       ELSE [st EXCEPT !.out = "error"]
             ELSE IF IsSubstring(opt, OptC)
                  THEN IF LiteralEval(arg).ok
                       THEN HandleOpts(Tail(opts),
                                [st EXCEPT !.c = LiteralEval(arg).value])
                       ELSE [st EXCEPT !.out = "error"]
             ELSE HandleOpts(Tail(opts), st)

\* not x, for a list x
Not(x) == Len(x) = 0

\* __main__ asking for the inputs only when all three are missing
MainOutcomeAllMissing(args) ==
    LET parsed == Getopt(args, <<>>)
        st == HandleOpts(parsed.opts,
                         [A |-> <<>>, b |-> <<>>, c |-> <<>>, out |-> "end"])
    IN  IF ~parsed.ok THEN <<"exited", 2, <<>>, <<>>, <<>>>>
        ELSE IF st.out = "help" THEN <<"exited", 0, st.A, st.b, st.c>>
        ELSE IF st.out = "error" THEN <<"failed", 1, st.A, st.b, st.c>>
        ELSE IF Not(st.A) /\ Not(st.b) /\ Not(st.c)
             THEN <<"exited", 0, st.A, st.b, st.c>>
        ELSE <<"call", -1, st.A, st.b, st.c>>

\* the whole of __main__ up to the call of run_simplex: <<pc, status, A, b, c>>
MainOutcome(args) ==
    LET parsed == Getopt(args, <<>>)
        st == HandleOpts(parsed.opts,
                         [A |-> <<>>, b |-> <<>>, c |-> <<>>, out |-> "end"])
    IN  IF ~parsed.ok THEN <<"exited", 2, <<>>, <<>>, <<>>>>
        ELSE IF st.out = "help" THEN <<"exited", 0, st.A, st.b, st.c>>
        ELSE IF st.out = "error" THEN <<"failed", 1, st.A, st.b, st.c>>
        ELSE IF Not(st.A) \/ Not(st.b) \/ Not(st.c)
             THEN <<"exited", 0, st.A, st.b, st.c>>
        ELSE <<"call", -1, st.A, st.b, st.c>>

\* the program is run with the command line argv
Main ==
    /\ pc = "main"
    /\ LET out == MainOutcome(argv)
       IN  /\ pc' = out[1]
           /\ status' = out[2]
           /\ inA' = out[3]
           /\ inB' = out[4]
           /\ inC' = out[5]
    /\ EngineUnchanged
    /\ UNCHANGED <<isMain, argv, pivotIndex, result, solutions, visited,
                   repeated>>

\* python simplex.py <argv>
InitMain ==
    /\ isMain = TRUE
    /\ pc = "main"
    /\ argv \in CommandLines
    /\ status = -1
    /\ inA = <<>> /\ inB = <<>> /\ inC = <<>>
    /\ A = <<>> /\ b = <<>> /\ c = <<>>
    /\ tableau = <<>> /\ entering = <<>> /\ departing = <<>>
    /\ pivotIndex = <<>>
    /\ result = <<>>
    /\ solutions = <<>>
    /\ visited = {}
    /\ repeated = FALSE

Init == InitCall \/ InitMain

Next ==
    \/ Main
    \/ SetSimplexInput
    \/ Return
    \/ Abort
    \/ Pivot
    \/ PivotRaises
    \/ Inspect

Spec == Init /\ [][Next]_vars


(***************************************************************************)
(* Vocabulary of the properties.                                           *)
(***************************************************************************)
\* the tableau exists: after set_simplex_input, between pivots, or final
SetUp == pc \in {"loop", "returned"}

\* run_simplex has been called
SolveStarted == pc \in {"call", "loop", "returned", "aborted", "raised"}

\* m constraint rows, n structural variables
NumConstraints == Len(inA)
NumVariables == Len(inC)

\* the run started from b >= 0
NonNegativeB == \A k \in 1..Len(inB) : FLe(Zero, ToFraction(inB[k]))

RECURSIVE Dot(_, _)
Dot(u, v) == IF u = <<>> THEN Zero
             ELSE FAdd(FMul(u[1], v[1]), Dot(Tail(u), Tail(v)))

\* x >= 0 and Ax <= b for the problem of the run
Feasible(x) ==
    /\ \A j \in 1..Len(x) : FLe(Zero, x[j])
    /\ \A i \in 1..Len(inA) : FLe(Dot(inA[i], x), inB[i])

\* a direction d >= 0 with Ad <= 0 and c.d > 0 along which the objective
\* grows without limit; for constraint rows with entries in -1..1 over two
\* variables the extreme directions have coordinates in 0..1
Unbounded ==
    \E d \in [1..NumVariables -> {Zero, One}] :
        /\ \A i \in 1..Len(inA) : FLe(Dot(inA[i], d), Zero)
        /\ FGt(Dot(inC, d), Zero)

\* the structural values x0..x(n-1) of a solution mapping
Structural(S) == [j \in 1..NumVariables |-> S[XLabel(j - 1)]]

\* points x with integer coordinates in 0..MaxB
SamplePoints == [1..NumVariables -> {Num(k) : k \in 0..MaxB}]

IsTest(p) == inA = p.A /\ inB = p.b /\ inC = p.c

\* the options getopt returns for the command line, and whether it parses
Parsed == Getopt(argv, <<>>)
HasHelp == \E k \in 1..Len(Parsed.opts) : Parsed.opts[k][1] = OptH
\* option k is a short -A, -b or -c whose value is no literal
BadValue(k) == /\ Parsed.opts[k][1] \in {OptA, OptB, OptC}
               /\ ~LiteralEval(Parsed.opts[k][2]).ok
\* a -h that no such option precedes
HelpReached == \E k \in 1..Len(Parsed.opts) :
                  /\ Parsed.opts[k][1] = OptH
                  /\ \A l \in 1..(k - 1) : ~BadValue(l)
AllDecode == \A k \in 1..Len(Parsed.opts) : ~BadValue(k)
SomeEmpty == Not(inA) \/ Not(inB) \/ Not(inC)

\* the command line with every long form replaced by its short form
ShortOf(flag) == IF flag = LongA THEN OptA
                 ELSE IF flag = LongB THEN OptB
                 ELSE IF flag = LongC THEN OptC
                 ELSE flag
ShortForm(args) == [k \in 1..Len(args) |-> Word(ShortOf(args[k].flag), args[k].text)]
AllLong == /\ Len(argv) = 3
           /\ {argv[k] : k \in 1..3} =
                {Word(LongA, LitA), Word(LongB, LitB), Word(LongC, LitC)}

(***************************************************************************)
(* Properties.                                                             *)
(***************************************************************************)

\* C1: on a problem with b >= 0 and a finite maximum, run_simplex returns,
\* and the mapping it returns is feasible (x >= 0, Ax <= b) with opt = c.x
\* the maximum: no feasible point has a larger objective value.
C1_ReturnsOptimum ==
    (SolveStarted /\ NonNegativeB /\ ~Unbounded) =>
        /\ pc \notin {"aborted", "raised"}
        /\ pc = "returned" =>
              LET x == Structural(result[1])
              IN  /\ Feasible(x)
                  /\ result[1]["opt"] = Dot(inC, x)
                  /\ \A y \in SamplePoints :
                        Feasible(y) => FLe(Dot(inC, y), result[1]["opt"])

\* C2: in a run started from b >= 0, the b-column entry of every constraint
\* row 0..m-1 is >= 0 in the initial tableau and after each pivot.
C2_BColumnNonNegative ==
    (SetUp /\ NonNegativeB) =>
        \A i \in 1..NumConstraints : FLe(Zero, tableau[i][Len(tableau[i])])

\* the number of ways to choose k of n
RECURSIVE Binomial(_, _)
Binomial(n, k) == IF k = 0 \/ k = n THEN 1
                  ELSE Binomial(n - 1, k - 1) + Binomial(n - 1, k)

\* C3: on each of the five test problems the run never comes back to a
\* basis it has left (so it pivots fewer times than there are bases),
\* never aborts or raises, and when it halts it returns exactly the mapping
\* the test expects.
C3_TestsConverge ==
    \A t \in {<<Test1, Expected1>>, <<Test2, Expected2>>, <<Test3, Expected3>>,
              <<Test4, Expected4>>, <<Test5, Expected5>>} :
        IsTest(t[1]) =>
            /\ ~repeated
            /\ Cardinality(visited) <
                  Binomial(NumVariables + NumConstraints, NumConstraints)
            /\ pc \notin {"aborted", "raised"}
            /\ pc = "returned" => result = <<t[2]>>

C3_Witness ==
    /\ IsTest(Test5) /\ pc = "returned" /\ result = <<Expected5>>
    /\ Cardinality(visited) >= 2

\* C4 as stated: once the driver has handled the command line, options
\* that include -h mean exit status 0, a command line that does not parse
\* means exit status 2, a parsed one that leaves A, b or c empty means exit
\* status 0, and run_simplex is called only with A, b, c all non-empty.
C4_AsStated ==
    (isMain /\ pc # "main") =>
        /\ (Parsed.ok /\ HasHelp) => (pc = "exited" /\ status = 0)
        /\ ~Parsed.ok => (pc = "exited" /\ status = 2)
        /\ (Parsed.ok /\ SomeEmpty) => (pc = "exited" /\ status = 0)
        /\ SolveStarted => ~SomeEmpty

\* C4 amended: the same, except that a short -A, -b or -c whose value is
\* no literal ends the program with an uncaught error (status 1, no solve)
\* when it comes before any -h; the -h and the empty-input exits are
\* promised for the command lines on which that does not happen.
C4_DriverExits ==
    (isMain /\ pc # "main") =>
        /\ (Parsed.ok /\ HelpReached) => (pc = "exited" /\ status = 0)
        /\ ~Parsed.ok => (pc = "exited" /\ status = 2)
        /\ (Parsed.ok /\ AllDecode /\ SomeEmpty) => (pc = "exited" /\ status = 0)
        /\ (Parsed.ok /\ ~HelpReached /\ ~AllDecode) => (pc = "failed" /\ status = 1)
        /\ SolveStarted => ~SomeEmpty

C4_Witness ==
    /\ isMain /\ pc = "failed" /\ status = 1
    /\ Parsed.ok /\ HasHelp

\* C5: a value given by --A=, --b= or --c= reaches the engine as if given
\* by -A, -b, -c: the driver ends as it does on the short-form command
\* line, and with all three values in long form run_simplex is called
\* with them.
C5_LongForms ==
    (isMain /\ pc \in {"call", "exited", "failed"}) =>
        /\ <<pc, status, inA, inB, inC>> = MainOutcome(ShortForm(argv))
        /\ AllLong => (pc = "call" /\ IsTest(Test1))

\* C6: a call of get_current_solution leaves tableau, entering and
\* departing as they are and, when another call came before it with no
\* pivot in between, returns the mapping that call returned.
C6_IdempotentInspection ==
    [][Len(solutions') > Len(solutions) =>
          /\ tableau' = tableau
          /\ entering' = entering
          /\ departing' = departing
          /\ \A k \in 1..Len(solutions) :
                solutions'[Len(solutions')] = solutions'[k]]_vars

C6_Witness ==
    /\ pc = "loop" /\ pivotIndex # <<>>
    /\ Len(solutions) = 2 /\ solutions[1] = solutions[2]

\* C7: when a run started from b >= 0 aborts, no constraint row has a
\* strictly positive entry in the entering column, and the problem has no
\* finite maximum.
C7_AbortMeansUnbounded ==
    (pc = "aborted" /\ NonNegativeB) =>
        /\ \A i \in 1..NumConstraints :
              FLe(tableau[i][pivotIndex[1] + 1], Zero)
        /\ Unbounded

\* C8: a pivot on position [j, i] of a constraint row i with
\* tableau[i][j] != 0 leaves column j a unit vector (1 in row i, 0 in every
\* other row, the objective row included), sets departing[i] to
\* entering[j] and changes no other label.
C8_PivotUnitColumn ==
    [][Pivot =>
          LET j == pivotIndex'[1]
              i == pivotIndex'[2]
          IN  tableau[i + 1][j + 1] # Zero =>
                 /\ \A k \in 1..Len(tableau') :
                       tableau'[k][j + 1] = IF k = i + 1 THEN One ELSE Zero
                 /\ departing'[i + 1] = entering[j + 1]
                 /\ \A k \in 1..Len(departing) :
                       k # i + 1 => departing'[k] = departing[k]
                 /\ Len(departing') = Len(departing)
                 /\ entering' = entering]_vars

C8_Witness ==
    /\ pc = "loop" /\ pivotIndex # <<>>
    /\ departing[pivotIndex[2] + 1] = entering[pivotIndex[1] + 1]
    /\ Cardinality(visited) >= 2

\* C9: in a run started from b >= 0 every position find_pivot selects has
\* its column in 0..n+m-1 (not the b column) and its row -1 or in 0..m-1
\* (not the objective row).
C9_PivotInsideConstraintBlock ==
    (NonNegativeB /\ pivotIndex # <<>>) =>
        /\ pivotIndex[1] \in 0..(NumVariables + NumConstraints - 1)
        /\ pivotIndex[2] \in -1..(NumConstraints - 1)

\* C10: after setup and after each pivot of a run started from b >= 0, the
\* mapping S of get_current_solution has S["opt"] equal to the sum of
\* c[j] * S["x"+j] over the structural variables.
C10_ObjectiveConsistent ==
    (SetUp /\ NonNegativeB) =>
        LET S == GetCurrentSolution(tableau, entering, departing)
        IN  S["opt"] = Dot(c, Structural(S))

C10_Witness ==
    /\ pc = "loop" /\ Cardinality(visited) >= 2
    /\ GetCurrentSolution(tableau, entering, departing)["opt"] # Zero
    /\ \E k \in 1..NumConstraints : FLt(tableau[k][Len(tableau[k])], Zero)

====
